---- MODULE Spec2Model ----
(***************************************************************************)
(* Model of grove-sensors-actuators.ino (Particle firmware): one selected  *)
(* sensor is read, normalised to a float, optionally inverted, and written *)
(* to one selected actuator, once per loop() iteration.                    *)
(*                                                                         *)
(* Floats are modelled as exact rationals [n, d] in lowest terms.  Every   *)
(* value the sensors can produce here is far from a rounding tie, so the   *)
(* exact value and the float agree on every comparison and every digit.    *)
(* The literal 0.12345 is modelled by its binary32 value.                  *)
(***************************************************************************)
EXTENDS Integers, Sequences, FiniteSets, TLC

(***************************************************************************)
(* Bounds of the model.                                                    *)
(***************************************************************************)
\* raw readings are sampled within Edge of every boundary of a sensor's domain
Edge == 2
\* number of publishNumber() calls explored by SpecThrottle
MaxCalls == 204

(***************************************************************************)
(* Enumeration constants and customisation macros.                         *)
(***************************************************************************)
ACTUATOR_7SEG == 1
ACTUATOR_BUZZ == 2
ACTUATOR_LED == 3

SENSOR_BUTTON == 1
SENSOR_LIGHT == 2
SENSOR_ROTARY == 3
SENSOR_ULTRASONIC == 4
SENSOR_DHT_HUMIDITY == 5
SENSOR_DHT_TEMPERATURE == 6

INTERVAL == 10
PUBLISH_WAIT == 100

SENSOR_BUTTON_PIN == "D4"
SENSOR_DHT_PIN == "D2"
SENSOR_LIGHT_PIN == "A4"
SENSOR_ROTARY_PIN == "A2"
SENSOR_ULTRASONIC_PIN == "D2"

TEMP_MIN == 10
TEMP_RANGE == 20

ACTUATOR_7SEG_CLK == "D2"
ACTUATOR_7SEG_DIO == "D3"
ACTUATOR_BUZZ_PIN == "A0"
ACTUATOR_LED_1 == "D4"
ACTUATOR_LED_2 == "D5"

\* digitalRead() levels
LOW == 0
HIGH == 1

\* "0 when read no sensors" / "0 when write to no actuators"
SensorChoices == 0..6
ActuatorChoices == 0..3

\* pins held by the driver objects constructed at file scope
ledsPins == {ACTUATOR_LED_1, ACTUATOR_LED_2}
dhtPins == {SENSOR_DHT_PIN}
tm1637Pins == {ACTUATOR_7SEG_CLK, ACTUATOR_7SEG_DIO}
ultrasonicPins == {SENSOR_ULTRASONIC_PIN}

(***************************************************************************)
(* float arithmetic, as exact rationals.                                   *)
(***************************************************************************)
Abs(x) == IF x < 0 THEN -x ELSE x

RECURSIVE GCD(_, _)
GCD(a, b) == IF b = 0 THEN a ELSE GCD(b, a % b)

\* the float n/d (d > 0)
Rat(n, d) ==
  LET g == GCD(Abs(n), d)
  IN  [n |-> (IF n < 0 THEN -(Abs(n) \div g) ELSE n \div g), d |-> d \div g]

Zero == Rat(0, 1)
One == Rat(1, 1)

\* value < k, value > k for an integer k
LtInt(value, k) == value.n < k * value.d
GtInt(value, k) == value.n > k * value.d

\* 1 - value
OneMinus(value) == Rat(value.d - value.n, value.d)

\* value * k for an integer k > 0
MulInt(value, k) == Rat(value.n * k, value.d)

\* (int)value: truncation toward zero
ToInt(value) ==
  IF value.n < 0 THEN -(Abs(value.n) \div value.d) ELSE value.n \div value.d

\* value < 0 ? 0 : (value > 1 ? 1 : value)
Clamp01(value) ==
  IF LtInt(value, 0) THEN Zero ELSE IF GtInt(value, 1) THEN One ELSE value

\* |value| * 10^k as a mixed number [ip, fn]: ip + fn/d with 0 <= fn < d,
\* one factor of ten at a time so that no product leaves 32 bits
RECURSIVE Times10(_, _, _)
Times10(m, d, k) ==
  IF k = 0 THEN m
  ELSE LET t == m.fn * 10
       IN  Times10([ip |-> m.ip * 10 + t \div d, fn |-> t % d], d, k - 1)

Mixed(value) == [ip |-> Abs(value.n) \div value.d, fn |-> Abs(value.n) % value.d]

\* the binary32 nearest to the literal 0.12345: 16569179 / 2^27
F32_0_12345 == [n |-> 16569179, d |-> 134217728]

(***************************************************************************)
(* State.                                                                  *)
(***************************************************************************)
VARIABLES
  SENSOR,            \* const int SENSOR
  ACTUATOR,          \* const int ACTUATOR
  REVERSE,           \* const bool REVERSE
  SensorValue,       \* float SensorValue
  PublishWaitCount,  \* int PublishWaitCount
  pc,                \* "setup" before setup() has run, "loop" afterwards
  setupCalls,        \* hardware calls made by setup(), in order
  hwCalls,           \* hardware calls made by the latest loop() or write*()
  raw,               \* what the latest sensor read returned
  calibrated,        \* what the latest read*() function returned
  domainOK,          \* every reading so far was inside its documented domain
  published,         \* number of Particle.publish() calls so far
  lastPublished,     \* payload of the latest Particle.publish(), in 1e-6 units
  calls,             \* number of publishNumber() calls so far
  incremented,       \* value of ++PublishWaitCount in the latest call
  emitted,           \* whether the latest publishNumber() call published
  arg                \* argument of the latest direct write*() call

vars == <<SENSOR, ACTUATOR, REVERSE, SensorValue, PublishWaitCount, pc,
          setupCalls, hwCalls, raw, calibrated, domainOK, published,
          lastPublished, calls, incremented, emitted, arg>>

config == <<SENSOR, ACTUATOR, REVERSE>>
throttleVars == <<PublishWaitCount, published, lastPublished, incremented, emitted>>

\* one call on a device capability interface
Call(dev, op, pins, dir, args) ==
  [dev |-> dev, op |-> op, pins |-> pins, dir |-> dir, args |-> args]

\* a sensor reading: the invalid marker (NaN) or a number
NaN == [nan |-> TRUE, val |-> 0]
Num(v) == [nan |-> FALSE, val |-> v]

(***************************************************************************)
(* Publish throttle.                                                       *)
(***************************************************************************)
PublishWaitCountInit_OffByOne == PUBLISH_WAIT - 1
\* int PublishWaitCount = PUBLISH_WAIT;
PublishWaitCountInit == PUBLISH_WAIT

ExceedsWait_AtLeast(c) == c >= PUBLISH_WAIT
\* the test of  if (++PublishWaitCount > PUBLISH_WAIT)
ExceedsWait(c) == c > PUBLISH_WAIT

\* sprintf(valueStr, "%f", number): six decimals, as an integer count of
\* millionths; an exact tie goes to the even digit
Format6(number) ==
  LET m == Times10(Mixed(number), number.d, 6)
      up == \/ 2 * m.fn > number.d
            \/ 2 * m.fn = number.d /\ m.ip % 2 = 1
      r == m.ip + (IF up THEN 1 ELSE 0)
  IN  IF number.n < 0 THEN -r ELSE r

publishNumber(number) ==
  LET c == PublishWaitCount + 1
  IN  /\ incremented' = c
      /\ IF ExceedsWait(c)
         THEN /\ lastPublished' = Format6(number)
              /\ published' = published + 1
              /\ PublishWaitCount' = 0
              /\ emitted' = TRUE
         ELSE /\ PublishWaitCount' = c
              /\ emitted' = FALSE
              /\ UNCHANGED <<published, lastPublished>>

(***************************************************************************)
(* Sensor read functions; the value returned by the device is a parameter. *)
(***************************************************************************)
readButton(level) == IF level = HIGH THEN One ELSE Zero

readDhtHumidity(previousValue, value) ==
  IF value.nan THEN previousValue ELSE Rat(value.val, 100)

readDhtTemperature(previousValue, value) ==
  IF value.nan THEN previousValue
  ELSE Clamp01(Rat(value.val - TEMP_MIN, TEMP_RANGE))

readLight(analog) == Clamp01(OneMinus(Rat(analog, 1023)))

readRotary_TenBit(analog) ==
  LET value == IF analog < 26 THEN 0 ELSE analog
  IN  Rat(value, 1024)
readRotary(analog) ==
  LET value == IF analog < 26 THEN 0 ELSE analog
  IN  Rat(value, 4096)

readUltrasonic(cm) ==
  LET range == Rat(cm, 100)
  IN  IF GtInt(range, 1) THEN One ELSE IF LtInt(range, 0) THEN Zero ELSE range

\* the device access made by the read function of sensor s
readCalls(s) ==
  CASE s = SENSOR_BUTTON ->
         <<Call("button", "digitalRead", {SENSOR_BUTTON_PIN}, "in", <<>>)>>
    [] s = SENSOR_DHT_HUMIDITY ->
         <<Call("dht", "readHumidity", dhtPins, "in", <<>>)>>
    [] s = SENSOR_DHT_TEMPERATURE ->
         <<Call("dht", "readTemperature", dhtPins, "in", <<>>)>>
    [] s = SENSOR_LIGHT ->
         <<Call("light", "analogRead", {SENSOR_LIGHT_PIN}, "in", <<>>)>>
    [] s = SENSOR_ROTARY ->
         <<Call("rotary", "analogRead", {SENSOR_ROTARY_PIN}, "in", <<>>)>>
    [] s = SENSOR_ULTRASONIC ->
         <<Call("ultrasonic", "MeasureInCentimeters", ultrasonicPins, "in", <<>>)>>
    [] OTHER -> <<>>

(***************************************************************************)
(* Actuator write functions: the hardware calls they make.                 *)
(***************************************************************************)
\* (int)(round(value * 100000.0 / 10.0)); round() is half away from zero
RoundTimes10000_Truncated(value) ==
  LET m == Times10(Mixed(value), value.d, 5)
      r == m.ip \div 10
  IN  IF value.n < 0 THEN -r ELSE r
RoundTimes10000(value) ==
  LET m == Times10(Mixed(value), value.d, 5)
      r == m.ip \div 10 + (IF m.ip % 10 >= 5 THEN 1 ELSE 0)
  IN  IF value.n < 0 THEN -r ELSE r

write7Seg(value) ==
  LET v == RoundTimes10000(value)
      displayValue == IF v > 9999 THEN 9999 ELSE IF v < 0 THEN 0 ELSE v
  IN  << Call("tm1637", "display", tm1637Pins, "out", <<0, (displayValue \div 1000) % 10>>),
         Call("tm1637", "display", tm1637Pins, "out", <<1, (displayValue \div 100) % 10>>),
         Call("tm1637", "display", tm1637Pins, "out", <<2, (displayValue \div 10) % 10>>),
         Call("tm1637", "display", tm1637Pins, "out", <<3, displayValue % 10>>) >>

\* value *= 255.0; value = value < 0 ? 0 : (value > 255 ? 255 : value);
Scale255(value) ==
  LET v == MulInt(value, 255)
  IN  IF LtInt(v, 0) THEN Zero ELSE IF GtInt(v, 255) THEN Rat(255, 1) ELSE v

\* analogWrite() takes an integer: the float is truncated at the call
writeBuzz(value) ==
  << Call("buzz", "analogWrite", {ACTUATOR_BUZZ_PIN}, "out", <<ToInt(Scale255(value))>>) >>

writeLed_NoUpperClamp(value) ==
  LET v == MulInt(value, 255)
      w == IF LtInt(v, 0) THEN Zero ELSE v
  IN  << Call("leds", "setColorRGB", ledsPins, "out", <<0, ToInt(w), ToInt(w), ToInt(w)>>) >>
writeLed(value) ==
  LET v == Scale255(value)
  IN  << Call("leds", "setColorRGB", ledsPins, "out", <<0, ToInt(v), ToInt(v), ToInt(v)>>) >>

\* switch (ACTUATOR) in loop()
writeActuator(a, value) ==
  CASE a = ACTUATOR_7SEG -> write7Seg(value)
    [] a = ACTUATOR_BUZZ -> writeBuzz(value)
    [] a = ACTUATOR_LED -> writeLed(value)
    [] OTHER -> <<>>

(***************************************************************************)
(* setup()                                                                 *)
(***************************************************************************)
setupSensorCalls_FallThrough(s) ==
  CASE s = SENSOR_BUTTON ->
         << Call("button", "pinMode(INPUT)", {SENSOR_BUTTON_PIN}, "cfg", <<>>),
            Call("dht", "begin", dhtPins, "cfg", <<>>) >>
    [] s = SENSOR_DHT_HUMIDITY -> <<Call("dht", "begin", dhtPins, "cfg", <<>>)>>
    [] s = SENSOR_DHT_TEMPERATURE -> <<Call("dht", "begin", dhtPins, "cfg", <<>>)>>
    [] s = SENSOR_LIGHT ->
         <<Call("light", "pinMode(INPUT)", {SENSOR_LIGHT_PIN}, "cfg", <<>>)>>
    [] s = SENSOR_ROTARY ->
         <<Call("rotary", "pinMode(INPUT)", {SENSOR_ROTARY_PIN}, "cfg", <<>>)>>
    [] OTHER -> <<>>
\* switch (SENSOR) in setup(); there is no case for SENSOR_ULTRASONIC
setupSensorCalls(s) ==
  CASE s = SENSOR_BUTTON ->
         <<Call("button", "pinMode(INPUT)", {SENSOR_BUTTON_PIN}, "cfg", <<>>)>>
    [] s = SENSOR_DHT_HUMIDITY -> <<Call("dht", "begin", dhtPins, "cfg", <<>>)>>
    [] s = SENSOR_DHT_TEMPERATURE -> <<Call("dht", "begin", dhtPins, "cfg", <<>>)>>
    [] s = SENSOR_LIGHT ->
         <<Call("light", "pinMode(INPUT)", {SENSOR_LIGHT_PIN}, "cfg", <<>>)>>
    [] s = SENSOR_ROTARY ->
         <<Call("rotary", "pinMode(INPUT)", {SENSOR_ROTARY_PIN}, "cfg", <<>>)>>
    [] OTHER -> <<>>

\* switch (ACTUATOR) in setup()
setupActuatorCalls(a) ==
  CASE a = ACTUATOR_7SEG ->
         << Call("tm1637", "init", tm1637Pins, "cfg", <<>>),
            Call("tm1637", "set(BRIGHT_TYPICAL)", tm1637Pins, "cfg", <<>>),
            Call("tm1637", "point(POINT_OFF)", tm1637Pins, "cfg", <<>>) >>
    [] a = ACTUATOR_BUZZ ->
         <<Call("buzz", "pinMode(OUTPUT)", {ACTUATOR_BUZZ_PIN}, "cfg", <<>>)>>
    [] a = ACTUATOR_LED -> <<Call("leds", "init", ledsPins, "cfg", <<>>)>>
    [] OTHER -> <<>>

setup ==
  /\ pc = "setup"
  /\ setupCalls' = setupSensorCalls(SENSOR) \o setupActuatorCalls(ACTUATOR)
  /\ pc' = "loop"
  /\ UNCHANGED <<config, SensorValue, hwCalls, raw, calibrated, domainOK,
                 throttleVars, calls, arg>>

(***************************************************************************)
(* What the devices can return.                                            *)
(***************************************************************************)
Near(k) == (k - Edge)..(k + Edge)

Readings(s) ==
  CASE s = SENSOR_BUTTON -> {Num(LOW), Num(HIGH)}
    [] s = SENSOR_LIGHT ->
         {Num(v) : v \in (0..Edge) \cup Near(511) \cup Near(1023)}
    [] s = SENSOR_ROTARY ->
         {Num(v) : v \in (0..Edge) \cup Near(26) \cup Near(2048) \cup Near(4096)}
    [] s = SENSOR_ULTRASONIC ->
         {Num(v) : v \in Near(0) \cup Near(50) \cup Near(100) \cup {400}}
    [] s = SENSOR_DHT_HUMIDITY ->
         {NaN} \cup {Num(v) : v \in Near(0) \cup Near(50) \cup Near(100)}
    [] s = SENSOR_DHT_TEMPERATURE ->
         {NaN} \cup {Num(v) : v \in Near(TEMP_MIN) \cup Near(20)
                                      \cup Near(TEMP_MIN + TEMP_RANGE) \cup {-5, 50}}
    [] OTHER -> {Num(0)}

\* the raw domains the read functions are documented for
InDomain(s, reading) ==
  CASE s = SENSOR_BUTTON -> reading.val \in {LOW, HIGH}
    [] s = SENSOR_LIGHT -> reading.val \in 0..1023
    [] s = SENSOR_ROTARY -> reading.val \in 0..4096
    [] s = SENSOR_ULTRASONIC -> reading.val >= 0
    [] s = SENSOR_DHT_HUMIDITY -> reading.nan \/ reading.val \in 0..100
    [] OTHER -> TRUE

(***************************************************************************)
(* loop()                                                                  *)
(***************************************************************************)
\* switch (SENSOR) in loop()
readSensor(s, previousValue, reading) ==
  CASE s = SENSOR_BUTTON -> readButton(reading.val)
    [] s = SENSOR_DHT_HUMIDITY -> readDhtHumidity(previousValue, reading)
    [] s = SENSOR_DHT_TEMPERATURE -> readDhtTemperature(previousValue, reading)
    [] s = SENSOR_LIGHT -> readLight(reading.val)
    [] s = SENSOR_ROTARY -> readRotary(reading.val)
    [] s = SENSOR_ULTRASONIC -> readUltrasonic(reading.val)
    [] OTHER -> previousValue

loopPublish_Uncommented(number) == publishNumber(number)
\* // publishNumber(SensorValue);   the call is commented out
loopPublish(number) == UNCHANGED throttleVars

\* delay(INTERVAL) changes no state and ends the iteration
loop ==
  /\ pc = "loop"
  /\ \E reading \in Readings(SENSOR) :
       LET value == readSensor(SENSOR, SensorValue, reading)
           final == IF REVERSE THEN OneMinus(value) ELSE value
       IN  /\ raw' = reading
           /\ calibrated' = value
           /\ domainOK' = (domainOK /\ InDomain(SENSOR, reading))
           /\ SensorValue' = final
           /\ loopPublish(final)
           /\ hwCalls' = readCalls(SENSOR) \o writeActuator(ACTUATOR, final)
  /\ UNCHANGED <<config, pc, setupCalls, calls, arg>>

(***************************************************************************)
(* The firmware: every selection of sensor, actuator and invert flag.      *)
(***************************************************************************)
Init ==
  /\ SENSOR \in SensorChoices
  /\ ACTUATOR \in ActuatorChoices
  /\ REVERSE \in BOOLEAN
  /\ SensorValue = Zero
  /\ PublishWaitCount = PublishWaitCountInit
  /\ pc = "setup"
  /\ setupCalls = <<>>
  /\ hwCalls = <<>>
  /\ raw = Num(0)
  /\ calibrated = Zero
  /\ domainOK = TRUE
  /\ published = 0
  /\ lastPublished = 0
  /\ calls = 0
  /\ incremented = 0
  /\ emitted = FALSE
  /\ arg = Zero

Next == setup \/ loop

Spec == Init /\ [][Next]_vars

(***************************************************************************)
(* publishNumber() and the write functions called directly, from the       *)
(* selection the source ships with.                                        *)
(***************************************************************************)
InitShipped ==
  /\ Init
  /\ SENSOR = SENSOR_ROTARY
  /\ ACTUATOR = ACTUATOR_7SEG
  /\ REVERSE = FALSE

PublishInputs == {Zero, Rat(1, 2), One, Rat(26, 4096)}

PublishNumberCall ==
  /\ calls < MaxCalls
  /\ \E number \in PublishInputs : publishNumber(number)
  /\ calls' = calls + 1
  /\ UNCHANGED <<config, SensorValue, pc, setupCalls, hwCalls, raw, calibrated,
                 domainOK, arg>>

NextThrottle == PublishNumberCall

SpecThrottle == InitShipped /\ [][NextThrottle]_vars

\* floats around and beyond [0,1]
RenderInputs ==
  {Rat(k, 16) : k \in -16..32}
    \cup {Rat(k, 4096) : k \in Near(0) \cup Near(26) \cup Near(4096)}

\* the largest binary32 below 1.0
F32_BelowOne == [n |-> 16777215, d |-> 16777216]

Seg7Inputs == RenderInputs \cup {F32_0_12345, F32_BelowOne}

renderFrame == <<config, SensorValue, pc, setupCalls, raw, calibrated, domainOK,
                 throttleVars, calls>>

Write7SegCall ==
  /\ \E value \in Seg7Inputs : arg' = value /\ hwCalls' = write7Seg(value)
  /\ UNCHANGED renderFrame

WriteBuzzCall ==
  /\ \E value \in RenderInputs : arg' = value /\ hwCalls' = writeBuzz(value)
  /\ UNCHANGED renderFrame

WriteLedCall ==
  /\ \E value \in RenderInputs : arg' = value /\ hwCalls' = writeLed(value)
  /\ UNCHANGED renderFrame

NextRender == Write7SegCall \/ WriteBuzzCall \/ WriteLedCall

SpecRender == InitShipped /\ [][NextRender]_vars

(***************************************************************************)
(* Properties.                                                             *)
(***************************************************************************)
W == PUBLISH_WAIT

\* 0 <= value <= 1
InUnit(value) == value.n >= 0 /\ value.n <= value.d

Range(seq) == {seq[i] : i \in 1..Len(seq)}

\* C1, as stated: counting calls from the initial state, the throttle stays
\* silent on calls 1..W and publishes exactly on the calls that are a multiple
\* of W+1.
C1_EmitsOnCallWPlus1 ==
  calls >= 1 => (emitted <=> calls % (W + 1) = 0)

\* C1, amended: the counter starts at W, so the throttle publishes on the very
\* first call, stays silent on the next W calls and publishes again on call
\* W+2; it publishes exactly on the calls n with n mod (W+1) = 1, and the
\* counter is zero after each of them.
C1_EmitsOnFirstCallThenEveryWPlus1 ==
  calls >= 1 =>
    /\ emitted <=> (calls % (W + 1) = 1)
    /\ PublishWaitCount = (calls - 1) % (W + 1)
    /\ published = ((calls - 1) \div (W + 1)) + 1

C1_Witness ==
  calls = 2 * (W + 1) + 1 /\ emitted /\ published = 3 /\ PublishWaitCount = 0

\* C2: with the humidity or the temperature sensor selected, a cycle whose
\* read returns the invalid marker leaves SensorValue (the value handed to the
\* next cycle as previousValue) as it was.
C2_InvalidReadKeepsMemory ==
  [][ ( /\ pc = "loop"
        /\ SENSOR \in {SENSOR_DHT_HUMIDITY, SENSOR_DHT_TEMPERATURE}
        /\ raw'.nan )
      => SensorValue' = SensorValue ]_vars

\* C3: as long as every raw reading was inside the documented domain of the
\* selected sensor, SensorValue is in [0,1] at the end of every cycle.
C3_CanonicalInUnit == domainOK => InUnit(SensorValue)

C3_Witness ==
  /\ pc = "loop" /\ domainOK /\ REVERSE
  /\ SENSOR = SENSOR_ROTARY /\ raw = Num(4096)
  /\ calibrated = One /\ SensorValue = Zero

\* round(value * 10000), half away from zero, clamped to [0,9999]
ClampedRound10000(value) ==
  LET m == Times10(Mixed(value), value.d, 4)
      twice == 2 * m.ip + ((2 * m.fn) \div value.d)
      r == (twice + 1) \div 2
      s == IF value.n < 0 THEN -r ELSE r
  IN  IF s < 0 THEN 0 ELSE IF s > 9999 THEN 9999 ELSE s

Seg7Written == hwCalls # <<>> /\ hwCalls[1].dev = "tm1637"
Seg7Digits == [i \in 1..Len(hwCalls) |-> hwCalls[i].args[2]]

\* write7Seg(arg) wrote positions 0,1,2,3 with the decimal digits of
\* round(arg * 10000) clamped to [0,9999], most significant first
Seg7DigitSplit ==
  /\ Len(hwCalls) = 4
  /\ \A i \in 1..4 : /\ hwCalls[i].op = "display"
                     /\ hwCalls[i].args[1] = i - 1
                     /\ hwCalls[i].args[2] \in 0..9
  /\ 1000 * Seg7Digits[1] + 100 * Seg7Digits[2] + 10 * Seg7Digits[3] + Seg7Digits[4]
       = ClampedRound10000(arg)

\* C4, as stated: the digit split, with 1.0 -> 9999, 0.0 -> 0000 and
\* 0.12345 -> 1234.
C4_DigitSplit1234 ==
  Seg7Written =>
    /\ Seg7DigitSplit
    /\ arg = One => Seg7Digits = <<9, 9, 9, 9>>
    /\ arg = Zero => Seg7Digits = <<0, 0, 0, 0>>
    /\ arg = F32_0_12345 => Seg7Digits = <<1, 2, 3, 4>>

\* C4, amended: the digit split, with 1.0 -> 9999, 0.0 -> 0000 and
\* 0.12345 -> 1235 (0.12345 x 10000 = 1234.5 rounds up).
C4_DigitSplit1235 ==
  Seg7Written =>
    /\ Seg7DigitSplit
    /\ arg = One => Seg7Digits = <<9, 9, 9, 9>>
    /\ arg = Zero => Seg7Digits = <<0, 0, 0, 0>>
    /\ arg = F32_0_12345 => Seg7Digits = <<1, 2, 3, 5>>

C4_Witness ==
  Seg7Written /\ arg = F32_0_12345 /\ Seg7Digits = <<1, 2, 3, 5>>

\* C5: a raw reading outside the documented domain of the selected sensor
\* still gives a read function result in [0,1].
C5_OutOfRangeClamped ==
  (pc = "loop" /\ ~InDomain(SENSOR, raw)) => InUnit(calibrated)

\* duty is value * 255 clamped to [0,255], as the integer the call receives
IsClampedDuty(value, duty) ==
  /\ duty \in 0..255
  /\ value.n < 0 => duty = 0
  /\ value.n > value.d => duty = 255
  /\ InUnit(value) =>
       /\ duty * value.d <= 255 * value.n
       /\ (255 * value.n < (duty + 1) * value.d)

\* C6: for any argument, below 0 and above 1 included, writeBuzz writes the
\* duty value * 255 clamped to [0,255], and writeLed sets LED 0 to a colour
\* whose three channels are equal and are value * 255 clamped to [0,255].
C6_RenderClamps ==
  /\ (hwCalls # <<>> /\ hwCalls[1].dev = "buzz") =>
        /\ Len(hwCalls) = 1
        /\ hwCalls[1].op = "analogWrite"
        /\ IsClampedDuty(arg, hwCalls[1].args[1])
  /\ (hwCalls # <<>> /\ hwCalls[1].dev = "leds") =>
        /\ Len(hwCalls) = 1
        /\ hwCalls[1].op = "setColorRGB"
        /\ hwCalls[1].args[1] = 0
        /\ hwCalls[1].args[2] = hwCalls[1].args[3]
        /\ hwCalls[1].args[3] = hwCalls[1].args[4]
        /\ IsClampedDuty(arg, hwCalls[1].args[2])

C6_Witness ==
  /\ hwCalls # <<>> /\ hwCalls[1].dev = "leds"
  /\ GtInt(arg, 1)
  /\ hwCalls[1].args = <<0, 255, 255, 255>>

C8_ThrottleCounter ==
  [][ /\ PublishWaitCount \in 0..W
      /\ PublishWaitCount' \in 0..W
      /\ incremented' = PublishWaitCount + 1
      /\ incremented' <= W + 1
      /\ (published' # published) <=> (incremented' > W)
      /\ (published' # published) =>
            (published' = published + 1 /\ PublishWaitCount' = 0)
      /\ (published' = published) => PublishWaitCount' = PublishWaitCount + 1
    ]_vars

C8_Witness ==
  calls > 1 /\ emitted /\ incremented = W + 1 /\ PublishWaitCount = 0

\* the device behind each selection
SensorDevice(s) ==
  CASE s = SENSOR_BUTTON -> "button"
    [] s = SENSOR_LIGHT -> "light"
    [] s = SENSOR_ROTARY -> "rotary"
    [] s = SENSOR_ULTRASONIC -> "ultrasonic"
    [] s = SENSOR_DHT_HUMIDITY -> "dht"
    [] s = SENSOR_DHT_TEMPERATURE -> "dht"
    [] OTHER -> "none"

ActuatorDevice(a) ==
  CASE a = ACTUATOR_7SEG -> "tm1637"
    [] a = ACTUATOR_BUZZ -> "buzz"
    [] a = ACTUATOR_LED -> "leds"
    [] OTHER -> "none"

\* C9: setup() configures and initialises only the selected sensor and the
\* selected actuator, and each cycle reads only the selected sensor and writes
\* only the selected actuator.
C9_OnlySelectedDevices ==
  /\ \A c \in Range(setupCalls) :
       /\ c.dir = "cfg"
       /\ c.dev \in {SensorDevice(SENSOR), ActuatorDevice(ACTUATOR)}
  /\ \A c \in Range(hwCalls) :
       /\ c.dir = "in" => c.dev = SensorDevice(SENSOR)
       /\ c.dir = "out" => c.dev = ActuatorDevice(ACTUATOR)
       /\ c.dir \in {"in", "out"}

C9_Witness ==
  /\ pc = "loop" /\ SENSOR = SENSOR_BUTTON /\ ACTUATOR = ACTUATOR_7SEG
  /\ Len(setupCalls) = 4 /\ Len(hwCalls) = 5

PinsOf(seq, dir) == UNION {c.pins : c \in {x \in Range(seq) : x.dir = dir}}

\* C10: in each of the 18 pairings no cycle reads and writes the same pin.
C10_PinsDisjoint ==
  (SENSOR \in 1..6 /\ ACTUATOR \in 1..3 /\ pc = "loop" /\ hwCalls # <<>>)
    => PinsOf(hwCalls, "in") \cap PinsOf(hwCalls, "out") = {}

====
